---- MODULE Spec2Model ----
(***************************************************************************)
(* Model of linear-local-mcp: the TTL-gated cache of LinearLocalReader     *)
(* (reader.py), the store detection it runs once (store_detector.py) and   *)
(* the query functions of the reader and the MCP tools (server.py).        *)
(*                                                                         *)
(* Python str values are sequences of one-character strings, so that       *)
(* lower(), upper(), startswith and "in" are computed on characters.       *)
(* Python None is the value None below; an absent int is NoneInt.          *)
(***************************************************************************)
EXTENDS Integers, Sequences, FiniteSets, TLC

VARIABLES
    now,        \* time.time(), in whole seconds
    pathExists, \* os.path.exists(self._db_path)
    stores,     \* self._stores: <<>> for None, <<DetectedStores>> once set
    cache,      \* self._cache: the CachedData readers are handed
    pc,         \* per caller: its position in _ensure_cache/_reload_cache
    priv,       \* per caller: the local `cache` of _reload_cache
    ret,        \* per caller: how its last access ended: "ok" or the exception
    seen,       \* per caller: the self._cache it tested in _ensure_cache
    dbh,        \* per caller: the local `db` of _reload_cache
    reloads,    \* per caller: _reload_cache calls made by the current access
    detects,    \* executions of detect_stores so far
    ticks,      \* clock advances so far
    accesses,   \* accessor calls so far
    tool,       \* the query a client runs on a snapshot: "none", or its name
    snapshot,   \* the CachedData the query reads
    request,    \* the arguments of the query; request.cursor is the next cursor
    pages,      \* the issues of the pages returned so far, concatenated
    resp,       \* <<>>, or <<the value the last call returned>>
    calls,      \* calls of the query made so far
    reads       \* the CachedData each accessor call of the running tool returned

queryVars == <<tool, snapshot, request, pages, resp, calls, reads>>

vars == <<now, pathExists, stores, cache, pc, priv, ret, seen, dbh, reloads,
          detects, ticks, accesses, tool, snapshot, request, pages, resp, calls,
          reads>>

(***************************************************************************)
(* Bounds of the model.                                                    *)
(***************************************************************************)
MaxTicks == 1
MaxAccesses == 2
MaxIssues == 3
MaxLimit == 2
MaxTeams == 2
MaxUsers == 3
MaxTables == 2

(***************************************************************************)
(* Python values.                                                          *)
(***************************************************************************)
None == <<"<None>">>
NoneInt == 0 - 1

Range(s) == {s[i] : i \in 1..Len(s)}

\* str.lower() / str.upper() on one character
LowerChar(ch) ==
    CASE ch = "A" -> "a" [] ch = "B" -> "b" [] ch = "C" -> "c" [] ch = "D" -> "d"
      [] ch = "E" -> "e" [] ch = "F" -> "f" [] ch = "G" -> "g" [] ch = "H" -> "h"
      [] ch = "I" -> "i" [] ch = "J" -> "j" [] ch = "K" -> "k" [] ch = "L" -> "l"
      [] ch = "M" -> "m" [] ch = "N" -> "n" [] ch = "O" -> "o" [] ch = "P" -> "p"
      [] ch = "Q" -> "q" [] ch = "R" -> "r" [] ch = "S" -> "s" [] ch = "T" -> "t"
      [] ch = "U" -> "u" [] ch = "V" -> "v" [] ch = "W" -> "w" [] ch = "X" -> "x"
      [] ch = "Y" -> "y" [] ch = "Z" -> "z" [] OTHER -> ch
UpperChar(ch) ==
    CASE ch = "a" -> "A" [] ch = "b" -> "B" [] ch = "c" -> "C" [] ch = "d" -> "D"
      [] ch = "e" -> "E" [] ch = "f" -> "F" [] ch = "g" -> "G" [] ch = "h" -> "H"
      [] ch = "i" -> "I" [] ch = "j" -> "J" [] ch = "k" -> "K" [] ch = "l" -> "L"
      [] ch = "m" -> "M" [] ch = "n" -> "N" [] ch = "o" -> "O" [] ch = "p" -> "P"
      [] ch = "q" -> "Q" [] ch = "r" -> "R" [] ch = "s" -> "S" [] ch = "t" -> "T"
      [] ch = "u" -> "U" [] ch = "v" -> "V" [] ch = "w" -> "W" [] ch = "x" -> "X"
      [] ch = "y" -> "Y" [] ch = "z" -> "Z" [] OTHER -> ch
Lower(s) == [i \in 1..Len(s) |-> LowerChar(s[i])]
Upper(s) == [i \in 1..Len(s) |-> UpperChar(s[i])]

\* s.startswith(p)
StartsWith(s, p) == Len(p) <= Len(s) /\ SubSeq(s, 1, Len(p)) = p
\* p in s
Contains(s, p) ==
    \E i \in 1..(Len(s) - Len(p) + 1) : SubSeq(s, i, i + Len(p) - 1) = p
\* str.isupper(): some cased character, and no lowercase one
IsUpperStr(s) == (\E i \in 1..Len(s) : LowerChar(s[i]) # s[i])
                 /\ (\A i \in 1..Len(s) : UpperChar(s[i]) = s[i])
\* str.isalpha(): non-empty, letters only
IsAlphaStr(s) ==
    Len(s) > 0 /\ \A i \in 1..Len(s) : LowerChar(s[i]) # s[i] \/ UpperChar(s[i]) # s[i]

\* Python truthiness of a str-or-None value
Truthy(v) == v # None /\ v # <<>>

\* dict.get(key) and dict.get(key, default) on a record of the store or cache
Get(val, f) == IF f \in DOMAIN val THEN val[f] ELSE None
GetInt(val, f) == IF f \in DOMAIN val THEN val[f] ELSE NoneInt
GetOr(val, f, dflt) == IF f \in DOMAIN val THEN val[f] ELSE dflt

\* LinearLocalReader._to_str (values are str or None; bytes are already text)
ToStr(val) == IF val = None THEN <<>> ELSE val

(***************************************************************************)
(* Python dicts keep insertion order: a dict of entities is the sequence   *)
(* of its values, each carrying its key in the field id.                   *)
(***************************************************************************)
Keys(d) == {d[i].id : i \in 1..Len(d)}
\* d[v.id] = v: replaces in place when the key exists, appends otherwise
DictSet(d, v) ==
    IF v.id \in Keys(d)
    THEN [i \in 1..Len(d) |-> IF d[i].id = v.id THEN v ELSE d[i]]
    ELSE Append(d, v)
\* d.get(k, {}) : <<>> stands for the empty dict
DictGet(d, k) ==
    IF k \in Keys(d) THEN <<d[CHOOSE i \in 1..Len(d) : d[i].id = k]>> ELSE <<>>

\* str(n) for an int of the store (f-string formatting of the issue number)
Digit(n) ==
    CASE n = 0 -> "0" [] n = 1 -> "1" [] n = 2 -> "2" [] n = 3 -> "3" [] n = 4 -> "4"
      [] n = 5 -> "5" [] n = 6 -> "6" [] n = 7 -> "7" [] n = 8 -> "8" [] n = 9 -> "9"
RECURSIVE NatStr(_)
NatStr(n) == IF n < 10 THEN <<Digit(n)>> ELSE Append(NatStr(n \div 10), Digit(n % 10))
sNone == <<"N", "o", "n", "e">>
IntStr(n) == IF n = NoneInt THEN sNone ELSE NatStr(n)
\* str(v) for a str-or-None inside an f-string
FmtStr(v) == IF v = None THEN sNone ELSE v

(***************************************************************************)
(* CachedData (reader.py:28-42).  done is a history field: the load        *)
(* sections of _reload_cache that have run on this object.                 *)
(***************************************************************************)
CACHE_TTL_SECONDS == 300

Sections == {"teams", "users", "states", "issues", "comments"}

NewCachedData(t) ==
    [teams |-> <<>>, users |-> <<>>, states |-> <<>>, issues |-> <<>>,
     comments |-> <<>>, comments_by_issue |-> <<>>, loaded_at |-> t, done |-> {}]

is_expired(c, t) == t - c.loaded_at > CACHE_TTL_SECONDS

(***************************************************************************)
(* store_detector.py                                                       *)
(***************************************************************************)
StateTypes == {<<"s", "t", "a", "r", "t", "e", "d">>,
               <<"u", "n", "s", "t", "a", "r", "t", "e", "d">>,
               <<"c", "o", "m", "p", "l", "e", "t", "e", "d">>,
               <<"c", "a", "n", "c", "e", "l", "e", "d">>,
               <<"b", "a", "c", "k", "l", "o", "g">>}

is_issue_record(r) == {"number", "teamId", "stateId", "title"} \subseteq DOMAIN r
is_user_record(r) ==
    /\ {"name", "displayName", "email"} \subseteq DOMAIN r
    /\ ("avatarUrl" \in DOMAIN r \/ "avatar" \in DOMAIN r)
is_team_record(r) ==
    /\ {"key", "name"} \subseteq DOMAIN r
    /\ r.key # None
    /\ IsUpperStr(r.key) /\ IsAlphaStr(r.key) /\ Len(r.key) <= 10
is_workflow_state_record(r) ==
    /\ {"name", "type", "color"} \subseteq DOMAIN r
    /\ r.type \in StateTypes
is_comment_record(r) == {"issueId", "userId", "bodyData", "createdAt"} \subseteq DOMAIN r
is_project_record(r) ==
    {"name", "description", "teamIds", "startDate", "targetDate", "statusId"}
        \subseteq DOMAIN r

\* DetectedStores(users=[], workflow_states=[])
EmptyDetected ==
    [issues |-> None, teams |-> None, users |-> <<>>, workflow_states |-> <<>>,
     comments |-> None, projects |-> None]

sPartial == <<"_", "p", "a", "r", "t", "i", "a", "l">>
SkippedName(n) == StartsWith(n, <<"_">>) \/ Contains(n, sPartial)

\* the if/elif chain of detect_stores on the first record of one table
Classify(res, n, r) ==
    IF is_issue_record(r) /\ res.issues = None THEN [res EXCEPT !.issues = n]
    ELSE IF is_team_record(r) /\ res.teams = None THEN [res EXCEPT !.teams = n]
    ELSE IF is_user_record(r) /\ n \notin Range(res.users)
        THEN [res EXCEPT !.users = Append(@, n)]
    ELSE IF is_workflow_state_record(r) /\ n \notin Range(res.workflow_states)
        THEN [res EXCEPT !.workflow_states = Append(@, n)]
    ELSE IF is_comment_record(r) /\ res.comments = None THEN [res EXCEPT !.comments = n]
    ELSE IF is_project_record(r) /\ res.projects = None THEN [res EXCEPT !.projects = n]
    ELSE res

RECURSIVE DetectFrom(_, _, _)
DetectFrom(tables, i, res) ==
    IF i > Len(tables) THEN res
    ELSE IF SkippedName(tables[i].name) \/ tables[i].recs = <<>>
        THEN DetectFrom(tables, i + 1, res)
    ELSE DetectFrom(tables, i + 1, Classify(res, tables[i].name, tables[i].recs[1]))

detect_stores(db) == DetectFrom(db.tables, 1, EmptyDetected)

(***************************************************************************)
(* reader.py: _extract_comment_text.  A bodyData value, and every value    *)
(* inside it, is a JSON value as Python holds it:                          *)
(*   [k |-> "null"]            None                                         *)
(*   [k |-> "num", n |-> 5]    a number                                     *)
(*   [k |-> "str", s |-> ..]   a str; a bodyData that is a str also has     *)
(*                             parsed: <<>> when json.loads raises, else    *)
(*                             <<the value json.loads returns>>             *)
(*   [k |-> "list", items]     a list                                       *)
(*   [k |-> "dict", ...]       a dict with its keys as fields               *)
(* extract returns [e, v]: e names the exception raised ("" for none), v   *)
(* is the value returned.                                                  *)
(***************************************************************************)
JStr(s) == [k |-> "str", s |-> s]

\* "".join(extract(c) for c in ...): the generator is run to its end first, an
\* exception of an item leaves the join; then every item must be a str
JoinAll(results) ==
    LET n == Len(results)
        Concat[i \in 0..n] == IF i = 0 THEN <<>> ELSE Concat[i - 1] \o results[i].v.s
    IN  IF \E i \in 1..n : results[i].e # ""
        THEN [e |-> results[CHOOSE i \in 1..n :
                                /\ results[i].e # ""
                                /\ \A j \in 1..(i - 1) : results[j].e = ""].e,
              v |-> [k |-> "null"]]
        ELSE IF \E i \in 1..n : results[i].v.k # "str"
            THEN [e |-> "TypeError", v |-> [k |-> "null"]]
        ELSE [e |-> "", v |-> JStr(Concat[n])]

RECURSIVE extract(_)
extract(node) ==
    IF node.k = "dict" THEN
        LET node_type == GetOr(node, "type", JStr(<<>>))
            Is(name) == node_type.k = "str" /\ node_type.s = name
        IN  IF Is(<<"t", "e", "x", "t">>)
            THEN [e |-> "", v |-> GetOr(node, "text", JStr(<<>>))]
            ELSE IF Is(<<"s", "u", "g", "g", "e", "s", "t", "i", "o", "n", "_", "u", "s",
                         "e", "r", "M", "e", "n", "t", "i", "o", "n", "s">>) THEN
                LET attrs == GetOr(node, "attrs", [k |-> "dict"])
                    label == GetOr(attrs, "label", JStr(<<>>))
                IN  \* None, a str, a number and a list have no .get
                    IF attrs.k # "dict" THEN [e |-> "AttributeError", v |-> [k |-> "null"]]
                    ELSE CASE label.k = "str" ->
                                [e |-> "", v |-> JStr(IF label.s # <<>>
                                                      THEN <<"@">> \o label.s ELSE <<>>)]
                           [] label.k = "num" ->
                                [e |-> "", v |-> JStr(IF label.n # 0
                                                      THEN <<"@">> \o NatStr(label.n)
                                                      ELSE <<>>)]
                           [] label.k = "null" -> [e |-> "", v |-> JStr(<<>>)]
            ELSE IF Is(<<"h", "a", "r", "d", "B", "r", "e", "a", "k">>)
                THEN [e |-> "", v |-> JStr(<<"\n">>)]
            ELSE LET content == GetOr(node, "content", [k |-> "list", items |-> <<>>])
                 IN  IF content.k = "list"
                     THEN JoinAll([i \in 1..Len(content.items) |->
                                      extract(content.items[i])])
                     \* iterating a dict or a str yields strs, each extracted to ""
                     ELSE IF content.k \in {"dict", "str"} THEN [e |-> "", v |-> JStr(<<>>)]
                     \* None and a number are not iterable
                     ELSE [e |-> "TypeError", v |-> [k |-> "null"]]
    ELSE IF node.k = "list"
        THEN JoinAll([i \in 1..Len(node.items) |-> extract(node.items[i])])
    ELSE [e |-> "", v |-> JStr(<<>>)]

extract_comment_text(body_data) ==
    IF body_data.k = "null" THEN [e |-> "", v |-> JStr(<<>>)]
    ELSE IF body_data.k = "str" THEN
        IF body_data.parsed = <<>> THEN [e |-> "", v |-> JStr(body_data.s)]
        ELSE extract(body_data.parsed[1])
    ELSE extract(body_data)

(***************************************************************************)
(* reader.py: the load sections of _reload_cache.  Each returns            *)
(* [err, d]: err is TRUE when the section raises KeyError (val["id"] on a  *)
(* record without id), which leaves _reload_cache before its last line.    *)
(***************************************************************************)
\* _load_from_store: db[store_name] raising is swallowed, nothing is yielded
TableRecs(db, n) ==
    IF \E i \in 1..Len(db.tables) : db.tables[i].name = n
    THEN db.tables[CHOOSE i \in 1..Len(db.tables) : db.tables[i].name = n].recs
    ELSE <<>>

\* the records yielded for a list of store names, one store after the other
RECURSIVE RecsOfAll(_, _, _)
RecsOfAll(db, names, i) ==
    IF i > Len(names) THEN <<>>
    ELSE TableRecs(db, names[i]) \o RecsOfAll(db, names, i + 1)

TeamEntry(val) == [id |-> val.id, key |-> Get(val, "key"), name |-> Get(val, "name")]

RECURSIVE load_teams(_, _, _)
load_teams(recs, i, d) ==
    IF i > Len(recs) THEN [err |-> FALSE, d |-> d]
    ELSE IF "id" \notin DOMAIN recs[i] THEN [err |-> TRUE, d |-> d]
    ELSE load_teams(recs, i + 1, DictSet(d, TeamEntry(recs[i])))

UserEntry(val) ==
    [id |-> val.id, name |-> Get(val, "name"), displayName |-> Get(val, "displayName"),
     email |-> Get(val, "email")]

RECURSIVE load_users(_, _, _)
load_users(recs, i, d) ==
    IF i > Len(recs) THEN [err |-> FALSE, d |-> d]
    ELSE IF Get(recs[i], "id") \in Keys(d) THEN load_users(recs, i + 1, d)
    ELSE IF "id" \notin DOMAIN recs[i] THEN [err |-> TRUE, d |-> d]
    ELSE load_users(recs, i + 1, DictSet(d, UserEntry(recs[i])))

StateEntry(val) ==
    [id |-> val.id, name |-> Get(val, "name"), type |-> Get(val, "type"),
     color |-> Get(val, "color")]

RECURSIVE load_states(_, _, _)
load_states(recs, i, d) ==
    IF i > Len(recs) THEN [err |-> FALSE, d |-> d]
    ELSE IF Get(recs[i], "id") \in Keys(d) THEN load_states(recs, i + 1, d)
    ELSE IF "id" \notin DOMAIN recs[i] THEN [err |-> TRUE, d |-> d]
    ELSE load_states(recs, i + 1, DictSet(d, StateEntry(recs[i])))

\* the identifier with team.get("key") for team.get("key", "???") (a slip the
\* code does not make)
IdentifierNoDefault(teams, val) ==
    LET team == DictGet(teams, Get(val, "teamId"))
        team_key == IF team = <<>> THEN None ELSE team[1].key
    IN  FmtStr(team_key) \o <<"-">> \o IntStr(GetInt(val, "number"))

\* f"{team_key}-{val.get('number')}" with team_key = team.get("key", "???")
Identifier(teams, val) ==
    LET team == DictGet(teams, Get(val, "teamId"))
        team_key == IF team = <<>> THEN <<"?", "?", "?">> ELSE team[1].key
    IN  FmtStr(team_key) \o <<"-">> \o IntStr(GetInt(val, "number"))

IssueEntry(teams, val) ==
    [id |-> val.id, identifier |-> Identifier(teams, val), title |-> Get(val, "title"),
     number |-> GetInt(val, "number"), priority |-> GetInt(val, "priority"),
     teamId |-> Get(val, "teamId"), stateId |-> Get(val, "stateId"),
     assigneeId |-> Get(val, "assigneeId"), projectId |-> Get(val, "projectId"),
     labelIds |-> GetOr(val, "labelIds", <<>>),
     createdAt |-> GetInt(val, "createdAt"), updatedAt |-> GetInt(val, "updatedAt")]

RECURSIVE load_issues(_, _, _, _)
load_issues(teams, recs, i, d) ==
    IF i > Len(recs) THEN [err |-> FALSE, d |-> d]
    ELSE IF "id" \notin DOMAIN recs[i] THEN [err |-> TRUE, d |-> d]
    ELSE load_issues(teams, recs, i + 1, DictSet(d, IssueEntry(teams, recs[i])))

\* the entry with the comment stored under its issue's id (a slip the code does
\* not make)
CommentEntryKeyedByIssue(val, body) ==
    [id |-> val.issueId, issueId |-> val.issueId, userId |-> Get(val, "userId"),
     body |-> body,
     createdAt |-> GetInt(val, "createdAt"), updatedAt |-> GetInt(val, "updatedAt")]

\* cache.comments[comment_id] = {...}; body is what _extract_comment_text returned
CommentEntry(val, body) ==
    [id |-> val.id, issueId |-> val.issueId, userId |-> Get(val, "userId"),
     body |-> body,
     createdAt |-> GetInt(val, "createdAt"), updatedAt |-> GetInt(val, "updatedAt")]

\* cache.comments_by_issue[issue_id].append(comment_id)
IndexAppend(idx, issue_id, comment_id) ==
    IF \E i \in 1..Len(idx) : idx[i].id = issue_id
    THEN [i \in 1..Len(idx) |->
            IF idx[i].id = issue_id THEN [idx[i] EXCEPT !.ids = Append(@, comment_id)]
            ELSE idx[i]]
    ELSE Append(idx, [id |-> issue_id, ids |-> <<comment_id>>])

\* returns [err, d, idx]: the exception _extract_comment_text raised ("" for
\* none), the comments dict and comments_by_issue
RECURSIVE load_comments(_, _, _, _)
load_comments(recs, i, d, idx) ==
    IF i > Len(recs) THEN [err |-> "", d |-> d, idx |-> idx]
    ELSE IF ~Truthy(Get(recs[i], "id")) \/ ~Truthy(Get(recs[i], "issueId"))
        THEN load_comments(recs, i + 1, d, idx)
    ELSE LET body == extract_comment_text(GetOr(recs[i], "bodyData", [k |-> "null"]))
         IN  IF body.e # "" THEN [err |-> body.e, d |-> d, idx |-> idx]
             ELSE load_comments(recs, i + 1, DictSet(d, CommentEntry(recs[i], body.v)),
                                IndexAppend(idx, recs[i].issueId, recs[i].id))

(***************************************************************************)
(* The contents the IndexedDB at self._db_path can have: records as Linear *)
(* writes them, and records that lack their id.  A database is            *)
(* [name, tables]; a table is [name, recs] in object_store_names order.    *)
(***************************************************************************)
sStarted == <<"s", "t", "a", "r", "t", "e", "d">>

TeamEng == [id |-> <<"t", "1">>, key |-> <<"E", "N", "G">>, name |-> <<"E", "n", "g">>]
TeamOps == [id |-> <<"t", "2">>, key |-> <<"O", "P", "S">>, name |-> <<"O", "p", "s">>]
TeamNoId == [key |-> <<"Q", "A">>, name |-> <<"Q", "a">>]

UserAnn == [id |-> <<"u", "1">>, name |-> <<"A", "n", "n">>, displayName |-> <<"a", "n">>,
            email |-> <<"a", "@", "x">>, avatarUrl |-> <<>>]
UserAnnCopy == [id |-> <<"u", "1">>, name |-> <<"A", "n", "n", "e">>,
                displayName |-> <<"a", "n">>, email |-> <<"a", "@", "y">>,
                avatar |-> <<>>]
UserBob == [id |-> <<"u", "2">>, name |-> <<"B", "o", "b">>, displayName |-> <<"b">>,
            email |-> <<"b", "@", "x">>, avatar |-> <<>>]
UserNoId == [name |-> <<"C", "y">>, displayName |-> <<"c">>, email |-> <<"c", "@", "x">>,
             avatarUrl |-> <<>>]

StateDoing == [id |-> <<"s", "1">>, name |-> <<"D", "o">>, type |-> sStarted,
               color |-> <<"#", "1">>]
StateDone == [id |-> <<"s", "2">>, name |-> <<"O", "k">>,
              type |-> <<"c", "o", "m", "p", "l", "e", "t", "e", "d">>,
              color |-> <<"#", "2">>]
StateNoId == [name |-> <<"N", "o">>, type |-> sStarted, color |-> <<"#", "3">>]

IssueA == [id |-> <<"i", "1">>, number |-> 12, teamId |-> <<"t", "1">>,
           stateId |-> <<"s", "1">>, title |-> <<"F", "i", "x">>, priority |-> 1,
           assigneeId |-> <<"u", "1">>, updatedAt |-> 5]
IssueB == [id |-> <<"i", "2">>, number |-> 7, teamId |-> <<"t", "9">>,
           stateId |-> <<"s", "2">>, title |-> <<"A", "d", "d">>]
IssueNoId == [number |-> 3, teamId |-> <<"t", "1">>, stateId |-> <<"s", "1">>,
              title |-> <<"B", "u", "g">>]

BodyDoc ==
    LET Text == [k |-> "dict", type |-> JStr(<<"t", "e", "x", "t">>),
                 text |-> JStr(<<"h", "i">>)]
        Break == [k |-> "dict", type |-> JStr(<<"h", "a", "r", "d", "B", "r", "e", "a", "k">>)]
        Mention == [k |-> "dict",
                    type |-> JStr(<<"s", "u", "g", "g", "e", "s", "t", "i", "o", "n", "_",
                                    "u", "s", "e", "r", "M", "e", "n", "t", "i", "o", "n",
                                    "s">>),
                    attrs |-> [k |-> "dict", label |-> JStr(<<"A", "n", "n">>)]]
        sParagraph == <<"p", "a", "r", "a", "g", "r", "a", "p", "h">>
    IN  [k |-> "dict", type |-> JStr(<<"d", "o", "c">>),
         content |-> [k |-> "list", items |->
            <<[k |-> "dict", type |-> JStr(sParagraph),
               content |-> [k |-> "list", items |-> <<Text, Break, Mention>>]],
              [k |-> "dict", type |-> JStr(sParagraph)]>>]]

CommentA == [id |-> <<"c", "1">>, issueId |-> <<"i", "1">>, userId |-> <<"u", "1">>,
             bodyData |-> BodyDoc, createdAt |-> 2]
CommentARepeat == [id |-> <<"c", "1">>, issueId |-> <<"i", "1">>, userId |-> <<"u", "2">>,
                   bodyData |-> [k |-> "str", s |-> <<"o", "k">>, parsed |-> <<>>],
                   createdAt |-> 3]
CommentB == [id |-> <<"c", "2">>, issueId |-> <<"i", "2">>, userId |-> <<"u", "2">>,
             bodyData |-> [k |-> "null"], createdAt |-> 1]
CommentNoId == [issueId |-> <<"i", "1">>, userId |-> <<"u", "1">>,
                bodyData |-> [k |-> "null"], createdAt |-> 4]

Table(n, recs) == [name |-> n, recs |-> recs]

\* the object stores of the main database; a store without records is there too
Tables(teamRecs, userRecs, moreUserRecs, stateRecs, issueRecs) ==
    <<Table(<<"h", "1">>, teamRecs), Table(<<"h", "2">>, userRecs),
      Table(<<"h", "3">>, moreUserRecs), Table(<<"h", "4">>, stateRecs),
      Table(<<"h", "5">>, issueRecs),
      Table(<<"h", "6">>, <<CommentA, CommentNoId, CommentARepeat, CommentB>>)>>

sLinear == <<"l", "i", "n", "e", "a", "r", "_">>
sLinearDatabases == sLinear \o <<"d", "a", "t", "a", "b", "a", "s", "e", "s">>

MetaDb == [name |-> sLinearDatabases, tables |-> <<>>]
MainDb(tables) == [name |-> sLinear \o <<"a", "b">>, tables |-> tables]

\* a store is wrapper.database_ids with the content of each database
StoreGood ==
    <<MetaDb,
      MainDb(<<Table(<<"_", "m">>, <<IssueA>>),
               Table(<<"h", "0">> \o sPartial, <<TeamOps>>)>>
             \o Tables(<<TeamEng, TeamOps>>, <<UserAnn>>, <<UserAnnCopy, UserBob>>,
                       <<StateDoing, StateDone>>, <<IssueA, IssueB>>))>>
StoreNoTeams ==
    <<MetaDb,
      MainDb(<<Table(<<"_", "m">>, <<IssueA>>),
               Table(<<"h", "0">> \o sPartial, <<TeamOps>>)>>
             \o Tables(<<>>, <<UserAnn>>, <<UserAnnCopy, UserBob>>,
                       <<StateDoing, StateDone>>, <<IssueA, IssueB>>))>>
StoreBadTeam ==
    <<MetaDb, MainDb(Tables(<<TeamEng, TeamNoId, TeamOps>>, <<UserAnn>>, <<>>,
                            <<StateDoing, StateDone>>, <<IssueA, IssueB>>))>>
StoreBadUser ==
    <<MetaDb, MainDb(Tables(<<TeamEng, TeamOps>>, <<UserAnn, UserNoId>>, <<>>,
                            <<StateDoing, StateDone>>, <<IssueA, IssueB>>))>>
StoreBadState ==
    <<MetaDb, MainDb(Tables(<<TeamEng, TeamOps>>, <<UserAnn>>, <<>>,
                            <<StateDoing, StateNoId, StateDone>>, <<IssueA, IssueB>>))>>
StoreBadIssue ==
    <<MetaDb, MainDb(Tables(<<TeamEng, TeamOps>>, <<UserAnn>>, <<>>,
                            <<StateDoing, StateDone>>, <<IssueA, IssueNoId, IssueB>>))>>
StoreNoDb == <<MetaDb>>

StoreVersions == {StoreGood, StoreNoTeams, StoreBadTeam, StoreBadUser, StoreBadState,
                  StoreBadIssue, StoreNoDb}

\* _find_linear_db: the first database whose name holds "linear_" and is not
\* "linear_databases"; <<>> when the loop ends and ValueError is raised
IsLinearDb(d) == Contains(d.name, sLinear) /\ d.name # sLinearDatabases
find_linear_db(st) ==
    IF \E i \in 1..Len(st) : IsLinearDb(st[i])
    THEN <<st[CHOOSE i \in 1..Len(st) :
                  IsLinearDb(st[i]) /\ \A j \in 1..(i - 1) : ~IsLinearDb(st[j])]>>
    ELSE <<>>

(***************************************************************************)
(* reader.py: the lookups of LinearLocalReader, on the snapshot the        *)
(* accessors return.                                                       *)
(***************************************************************************)
\* find_user: the score of one user, 0 when the search term is in neither name
UserScore(user, search_lower) ==
    LET name_lower == Lower(ToStr(GetOr(user, "name", <<>>)))
        display_lower == Lower(ToStr(GetOr(user, "displayName", <<>>)))
    IN  IF Contains(name_lower, search_lower) \/ Contains(display_lower, search_lower)
        THEN IF StartsWith(name_lower, search_lower) THEN 100
             ELSE IF Contains(<<" ">> \o name_lower, <<" ">> \o search_lower) THEN 50
             ELSE IF StartsWith(display_lower, search_lower) THEN 40
             ELSE 10
        ELSE 0

\* candidates.sort(key=lambda x: -x[0]) that puts an equal score first
\* (a slip the code does not make: list.sort is stable)
InsertCandidateUnstable(sorted, cand) ==
    LET k == Cardinality({i \in 1..Len(sorted) : sorted[i].score > cand.score})
    IN  SubSeq(sorted, 1, k) \o <<cand>> \o SubSeq(sorted, k + 1, Len(sorted))

\* candidates.sort(key=lambda x: -x[0]), one element at a time: list.sort is
\* stable, so a candidate goes after those whose score is not lower
InsertCandidate(sorted, cand) ==
    LET k == Cardinality({i \in 1..Len(sorted) : sorted[i].score >= cand.score})
    IN  SubSeq(sorted, 1, k) \o <<cand>> \o SubSeq(sorted, k + 1, Len(sorted))

RECURSIVE SortCandidates(_, _, _)
SortCandidates(cands, i, sorted) ==
    IF i > Len(cands) THEN sorted
    ELSE SortCandidates(cands, i + 1, InsertCandidate(sorted, cands[i]))

RECURSIVE Candidates(_, _, _)
Candidates(users, search_lower, i) ==
    IF i > Len(users) THEN <<>>
    ELSE IF UserScore(users[i], search_lower) > 0
        THEN <<[score |-> UserScore(users[i], search_lower), user |-> users[i]]>>
                 \o Candidates(users, search_lower, i + 1)
    ELSE Candidates(users, search_lower, i + 1)

\* find_user: <<user>>, or <<>> for None
find_user(users, search) ==
    LET candidates == SortCandidates(Candidates(users, Lower(search), 1), 1, <<>>)
    IN  IF candidates # <<>> THEN <<candidates[1].user>> ELSE <<>>

\* the test of find_team's loop on one team
TeamMatches(team, search) ==
    \/ GetOr(team, "key", <<>>) = Upper(search)
    \/ Contains(Lower(ToStr(GetOr(team, "name", <<>>))), Lower(search))

\* find_team: the first team of the dict that passes the test; <<>> for None
find_team(teams, search) ==
    IF \E i \in 1..Len(teams) : TeamMatches(teams[i], search)
    THEN <<teams[CHOOSE i \in 1..Len(teams) :
                     /\ TeamMatches(teams[i], search)
                     /\ \A j \in 1..(i - 1) : ~TeamMatches(teams[j], search)]>>
    ELSE <<>>

\* get_state_type / get_state_name: state.get(..., default) on states.get(id, {})
get_state_type(states, state_id) ==
    GetOr(IF DictGet(states, state_id) = <<>> THEN [k |-> "dict"]
          ELSE DictGet(states, state_id)[1],
          "type", <<"u", "n", "k", "n", "o", "w", "n">>)
get_state_name(states, state_id) ==
    GetOr(IF DictGet(states, state_id) = <<>> THEN [k |-> "dict"]
          ELSE DictGet(states, state_id)[1],
          "name", <<"U", "n", "k", "n", "o", "w", "n">>)

\* get_issues_for_user
RECURSIVE SelectAssigned(_, _, _)
SelectAssigned(issues, user_id, i) ==
    IF i > Len(issues) THEN <<>>
    ELSE IF issues[i].assigneeId = user_id
        THEN <<issues[i]>> \o SelectAssigned(issues, user_id, i + 1)
    ELSE SelectAssigned(issues, user_id, i + 1)
get_issues_for_user(issues, user_id) == SelectAssigned(issues, user_id, 1)

(***************************************************************************)
(* server.py: the tools list_issues and get_my_issues.                     *)
(*                                                                         *)
(* Timestamps count thousands of seconds, so that the 1e12 of              *)
(* _parse_datetime is 10^9 here.  The updated_after argument is            *)
(* [given, ts]: whether the str is truthy, and the timestamp               *)
(* _parse_datetime makes of it (NoneInt when fromisoformat raises).        *)
(***************************************************************************)
\* Python compares str by code point; the characters of the model in that order
CodePoints ==
    <<" ", "#", "-", "0", "1", "2", "3", "4", "5", "6", "7", "8", "9", "?", "@",
      "A", "B", "C", "D", "E", "F", "G", "H", "I", "J", "K", "L", "M", "N", "O",
      "P", "Q", "R", "S", "T", "U", "V", "W", "X", "Y", "Z", "_",
      "a", "b", "c", "d", "e", "f", "g", "h", "i", "j", "k", "l", "m", "n", "o",
      "p", "q", "r", "s", "t", "u", "v", "w", "x", "y", "z">>
Ord(ch) == CHOOSE i \in 1..Len(CodePoints) : CodePoints[i] = ch

\* a < b on str
RECURSIVE StrLess(_, _)
StrLess(a, b) ==
    IF b = <<>> THEN FALSE
    ELSE IF a = <<>> THEN TRUE
    ELSE IF Ord(a[1]) # Ord(b[1]) THEN Ord(a[1]) < Ord(b[1])
    ELSE StrLess(Tail(a), Tail(b))

\* _parse_datetime on a number of the store: None stays None (NoneInt), a
\* number above 1e12 is milliseconds
parse_datetime(v) ==
    IF v = NoneInt THEN NoneInt
    ELSE IF v > 1000000000 THEN v \div 1000
    ELSE v

\* x.get("priority") or 4
PriorityKey(x) == IF x.priority = NoneInt \/ x.priority = 0 THEN 4 ELSE x.priority

\* the sort key (x.get("priority") or 4, x.get("id", "")), compared as tuples
KeyLess(a, b) ==
    \/ PriorityKey(a) < PriorityKey(b)
    \/ PriorityKey(a) = PriorityKey(b) /\ StrLess(a.id, b.id)

\* a sort on the priority alone (a slip the code does not make)
InsertIssueNoTieBreak(sorted, x) ==
    LET k == Cardinality({i \in 1..Len(sorted) : PriorityKey(sorted[i]) <= PriorityKey(x)})
    IN  SubSeq(sorted, 1, k) \o <<x>> \o SubSeq(sorted, k + 1, Len(sorted))

\* sorted(..., key=...) one element at a time: stable, x goes after the elements
\* that do not come after it
InsertIssue(sorted, x) ==
    LET k == Cardinality({i \in 1..Len(sorted) : ~KeyLess(x, sorted[i])})
    IN  SubSeq(sorted, 1, k) \o <<x>> \o SubSeq(sorted, k + 1, Len(sorted))

RECURSIVE SortIssues(_, _, _)
SortIssues(issues, i, sorted) ==
    IF i > Len(issues) THEN sorted
    ELSE SortIssues(issues, i + 1, InsertIssue(sorted, issues[i]))

\* list_issues, the test of the filter loop; assignee_id and team_id are None
\* when the filter is not given
PassesFilters(snap, issue, assignee_id, team_id, args) ==
    /\ ~(Truthy(assignee_id) /\ issue.assigneeId # assignee_id)
    /\ ~(Truthy(team_id) /\ issue.teamId # team_id)
    /\ ~(Truthy(args.state_type)
           /\ get_state_type(snap.states, issue.stateId) # args.state_type)
    /\ ~(args.priority # NoneInt /\ issue.priority # args.priority)
    /\ ~(args.updated_after.given
           /\ (parse_datetime(issue.updatedAt) = NoneInt
                 \/ parse_datetime(issue.updatedAt) < args.updated_after.ts))

RECURSIVE FilterIssues(_, _, _, _, _, _)
FilterIssues(snap, issues, i, assignee_id, team_id, args) ==
    IF i > Len(issues) THEN <<>>
    ELSE IF PassesFilters(snap, issues[i], assignee_id, team_id, args)
        THEN <<issues[i]>> \o FilterIssues(snap, issues, i + 1, assignee_id, team_id, args)
    ELSE FilterIssues(snap, issues, i + 1, assignee_id, team_id, args)

\* the cursor loop that restarts after the cursor's predecessor (a slip the code
\* does not make: it returns the cursor issue again)
AfterCursorInclusive(issues, cursor) ==
    IF ~Truthy(cursor) THEN issues
    ELSE IF \E i \in 1..Len(issues) : issues[i].id = cursor
        THEN SubSeq(issues, CHOOSE i \in 1..Len(issues) : issues[i].id = cursor,
                    Len(issues))
    ELSE <<>>

\* the cursor loop that keeps the whole list when no issue has the cursor's id (a
\* slip the code does not make: paging would restart)
AfterCursorRestart(issues, cursor) ==
    IF ~Truthy(cursor) THEN issues
    ELSE IF \E i \in 1..Len(issues) : issues[i].id = cursor
        THEN SubSeq(issues, (CHOOSE i \in 1..Len(issues) : issues[i].id = cursor) + 1,
                    Len(issues))
    ELSE issues

\* if cursor: skip the issues up to and including the one whose id is the cursor;
\* nothing is kept when no issue has that id
AfterCursor(issues, cursor) ==
    IF ~Truthy(cursor) THEN issues
    ELSE IF \E i \in 1..Len(issues) : issues[i].id = cursor
        THEN SubSeq(issues, (CHOOSE i \in 1..Len(issues) : issues[i].id = cursor) + 1,
                    Len(issues))
    ELSE <<>>

Min(a, b) == IF a < b THEN a ELSE b

\* {**issue, "state": ..., "stateType": ...}
Enriched(snap, issue) ==
    [f \in DOMAIN issue \cup {"state", "stateType"} |->
        IF f = "state" THEN get_state_name(snap.states, issue.stateId)
        ELSE IF f = "stateType" THEN get_state_type(snap.states, issue.stateId)
        ELSE issue[f]]

EmptyListing(error) ==
    [error |-> error, issues |-> <<>>, nextCursor |-> None, totalCount |-> 0]

\* server.py: list_issues
list_issues(snap, args) ==
    LET limit == Min(args.limit, 100)
        user == IF Truthy(args.assignee) THEN find_user(snap.users, args.assignee)
                ELSE <<>>
        team_obj == IF Truthy(args.team) THEN find_team(snap.teams, args.team) ELSE <<>>
        assignee_id == IF user # <<>> THEN user[1].id ELSE None
        team_id == IF team_obj # <<>> THEN team_obj[1].id ELSE None
        all_issues == SortIssues(snap.issues, 1, <<>>)
        filtered == FilterIssues(snap, all_issues, 1, assignee_id, team_id, args)
        rest == AfterCursor(filtered, args.cursor)
        has_more == Len(SubSeq(rest, 1, Min(limit + 1, Len(rest)))) > limit
        page == SubSeq(rest, 1, Min(limit, Len(rest)))
        results == [i \in 1..Len(page) |-> Enriched(snap, page[i])]
    IN  IF args.updated_after.given /\ args.updated_after.ts = NoneInt
            THEN EmptyListing("Invalid updated_after format")
        ELSE IF Truthy(args.assignee) /\ user = <<>> THEN EmptyListing("")
        ELSE IF Truthy(args.team) /\ team_obj = <<>> THEN EmptyListing("")
        ELSE [error |-> "", issues |-> results,
              nextCursor |-> IF has_more /\ results # <<>>
                             THEN results[Len(results)].id ELSE None,
              totalCount |-> Len(filtered)]

\* server.py: search_issues; title is issue.get("title", "") or ""
search_issues(snap, args) ==
    LET limit == Min(args.limit, 100)
        query_lower == Lower(args.query)
        all_issues == SortIssues(snap.issues, 1, <<>>)
        Matches(issue) == Contains(Lower(ToStr(issue.title)), query_lower)
        Filter[i \in 0..Len(all_issues)] ==
            IF i = 0 THEN <<>>
            ELSE IF Matches(all_issues[i]) THEN Append(Filter[i - 1], all_issues[i])
            ELSE Filter[i - 1]
        filtered == Filter[Len(all_issues)]
        rest == AfterCursor(filtered, args.cursor)
        has_more == Len(SubSeq(rest, 1, Min(limit + 1, Len(rest)))) > limit
        page == SubSeq(rest, 1, Min(limit, Len(rest)))
        results == [i \in 1..Len(page) |-> Enriched(snap, page[i])]
    IN  [error |-> "", issues |-> results,
         nextCursor |-> IF has_more /\ results # <<>>
                        THEN results[Len(results)].id ELSE None,
         matchCount |-> Len(filtered)]

\* get_my_issues: the two list comprehensions that filter all_issues
RECURSIVE FilterMine(_, _, _, _)
FilterMine(snap, issues, i, args) ==
    IF i > Len(issues) THEN <<>>
    ELSE IF /\ ~(Truthy(args.state_type)
                   /\ get_state_type(snap.states, issues[i].stateId) # args.state_type)
            /\ ~(args.updated_after.given
                   /\ (IF parse_datetime(issues[i].updatedAt) \in {NoneInt, 0} THEN 0
                       ELSE parse_datetime(issues[i].updatedAt)) < args.updated_after.ts)
        THEN <<issues[i]>> \o FilterMine(snap, issues, i + 1, args)
    ELSE FilterMine(snap, issues, i + 1, args)

\* the counting loop with counts_by_state[t] = 1 for the increment (a slip the
\* code does not make)
RECURSIVE CountStatesOnce(_, _, _, _)
CountStatesOnce(snap, issues, i, counts) ==
    IF i > Len(issues) THEN counts
    ELSE LET t == get_state_type(snap.states, issues[i].stateId)
         IN  CountStatesOnce(snap, issues, i + 1,
                             IF t \in DOMAIN counts THEN counts
                             ELSE [u \in DOMAIN counts \cup {t} |->
                                      IF u = t THEN 1 ELSE counts[u]])

\* get_my_issues: counts_by_state[t] = counts_by_state.get(t, 0) + 1 for each issue;
\* the dict is a function on the state types met
RECURSIVE CountStates(_, _, _, _)
CountStates(snap, issues, i, counts) ==
    IF i > Len(issues) THEN counts
    ELSE LET t == get_state_type(snap.states, issues[i].stateId)
         IN  CountStates(snap, issues, i + 1,
                         IF t \in DOMAIN counts THEN [counts EXCEPT ![t] = @ + 1]
                         ELSE [u \in DOMAIN counts \cup {t} |->
                                  IF u = t THEN 1 ELSE counts[u]])

\* sum(counts_by_state.values())
RECURSIVE SumValues(_)
SumValues(counts) ==
    IF DOMAIN counts = {} THEN 0
    ELSE LET t == CHOOSE t \in DOMAIN counts : TRUE
         IN  counts[t] + SumValues([u \in DOMAIN counts \ {t} |-> counts[u]])

\* the compact form of one issue in get_my_issues
Compact(snap, issue) ==
    [id |-> issue.id, identifier |-> issue.identifier, title |-> issue.title,
     priority |-> issue.priority,
     state |-> get_state_name(snap.states, issue.stateId),
     stateType |-> get_state_type(snap.states, issue.stateId)]

\* server.py: get_my_issues (args.assignee is its name argument)
get_my_issues(snap, args) ==
    LET limit == Min(args.limit, 100)
        user == find_user(snap.users, args.assignee)
        all_issues == SortIssues(get_issues_for_user(snap.issues, user[1].id), 1, <<>>)
        filtered == FilterMine(snap, all_issues, 1, args)
        rest == AfterCursor(filtered, args.cursor)
        has_more == Len(SubSeq(rest, 1, Min(limit + 1, Len(rest)))) > limit
        page == SubSeq(rest, 1, Min(limit, Len(rest)))
    IN  IF args.updated_after.given /\ args.updated_after.ts = NoneInt
            THEN EmptyListing("Invalid updated_after format")
        ELSE IF user = <<>> THEN EmptyListing("User not found")
        ELSE [error |-> "", issues |-> [i \in 1..Len(page) |-> Compact(snap, page[i])],
              nextCursor |-> IF has_more /\ page # <<>> THEN page[Len(page)].id ELSE None,
              totalIssues |-> SumValues(CountStates(snap, all_issues, 1, <<>>)),
              countsByStateType |-> CountStates(snap, all_issues, 1, <<>>),
              matchingCount |-> Len(filtered)]

(***************************************************************************)
(* server.py: list_issues(assignee=...) as the accessor calls it makes.    *)
(* reads[1] is what reader.users returned to find_user, reads[2] what      *)
(* reader.issues returned; for the j-th issue of the page get_state_name   *)
(* reads reader.states as reads[1 + 2j] and get_state_type as              *)
(* reads[2 + 2j].                                                          *)
(***************************************************************************)
\* the filter loop, the cursor loop and the page, on the issues reads[2] holds
ListingRead ==
    LET user == find_user(reads[1].users, request.assignee)
        all_issues == SortIssues(reads[2].issues, 1, <<>>)
        filtered == FilterIssues(reads[2], all_issues, 1, user[1].id, None, request)
        rest == AfterCursor(filtered, request.cursor)
        limit == Min(request.limit, 100)
    IN  [total_count |-> Len(filtered),
         has_more |-> Len(SubSeq(rest, 1, Min(limit + 1, Len(rest)))) > limit,
         page |-> SubSeq(rest, 1, Min(limit, Len(rest)))]

\* the accessor calls the tool makes in all, as far as the values read decide it
AccessesNeeded ==
    IF reads = <<>> THEN 1
    ELSE IF find_user(reads[1].users, request.assignee) = <<>> THEN 1
    ELSE IF Len(reads) = 1 THEN 2
    ELSE 2 + 2 * Len(ListingRead.page)

(***************************************************************************)
(* reader.py: LinearLocalReader.  Callers are the threads that call an     *)
(* accessor (teams, users, states, issues, comments, get_summary, ...);    *)
(* every accessor goes through _ensure_cache.  The code takes no lock, so  *)
(* callers interleave between any two statements that touch self._cache    *)
(* or self._stores.  The IndexedDB belongs to Linear.app: what a reload    *)
(* finds at self._db_path is any of StoreVersions.                         *)
(***************************************************************************)
Callers == {"c1", "c2"}

StartTime == 2 * CACHE_TTL_SECONDS
TickSteps == {CACHE_TTL_SECONDS - 1, CACHE_TTL_SECONDS, CACHE_TTL_SECONDS + 1}

NoDb == [name |-> <<>>, tables |-> <<>>]

ReloadPcs == {"reload", "stores_check", "detect", "load_teams", "load_users",
              "load_states", "load_issues", "load_comments", "publish"}

\* no query argument given
NoArgs ==
    [assignee |-> None, team |-> None, state_type |-> None, priority |-> NoneInt,
     updated_after |-> [given |-> FALSE, ts |-> NoneInt], limit |-> 50, cursor |-> None,
     query |-> None]

\* no client query is under way
QueryIdle ==
    /\ tool = "none"
    /\ snapshot = NewCachedData(0)
    /\ request = NoArgs
    /\ pages = <<>>
    /\ resp = <<>>
    /\ calls = 0
    /\ reads = <<>>

\* LinearLocalReader.__init__
Constructed ==
    /\ now = StartTime
    /\ stores = <<>>
    /\ cache = NewCachedData(0)
    /\ pc = [c \in Callers |-> "idle"]
    /\ priv = [c \in Callers |-> NewCachedData(0)]
    /\ ret = [c \in Callers |-> "none"]
    /\ seen = [c \in Callers |-> <<>>]
    /\ dbh = [c \in Callers |-> NoDb]
    /\ reloads = [c \in Callers |-> 0]
    /\ detects = 0
    /\ ticks = 0
    /\ accesses = 0

Init == Constructed /\ pathExists \in BOOLEAN /\ QueryIdle

\* the exception leaves _reload_cache and _ensure_cache: the locals are gone
Raise(c, e) ==
    /\ ret' = [ret EXCEPT ![c] = e]
    /\ pc' = [pc EXCEPT ![c] = "idle"]
    /\ priv' = [priv EXCEPT ![c] = NewCachedData(0)]
    /\ dbh' = [dbh EXCEPT ![c] = NoDb]

\* CachedData.is_expired with >= for > (a slip the code does not make)
NeedsReloadAtTtl(c, t) == t - c.loaded_at >= CACHE_TTL_SECONDS \/ c.teams = <<>>

\* _ensure_cache: self._cache.is_expired() or not self._cache.teams
NeedsReload(c, t) == is_expired(c, t) \/ c.teams = <<>>

\* an accessor call is to come: any caller's while the model's budget lasts, or
\* the next one of the running tool, unless an exception has ended the tool
MayAccess(c) ==
    IF tool = "none" THEN accesses < MaxAccesses
    ELSE ret[c] \in {"none", "ok"} /\ Len(reads) < AccessesNeeded

\* a caller enters an accessor and _ensure_cache tests self._cache
EnsureCheck(c) ==
    /\ pc[c] = "idle"
    /\ MayAccess(c)
    /\ accesses' = accesses + 1
    /\ ret' = [ret EXCEPT ![c] = "none"]
    /\ IF NeedsReload(cache, now)
       THEN /\ pc' = [pc EXCEPT ![c] = "reload"]
            /\ reloads' = [reloads EXCEPT ![c] = 1]
            /\ seen' = [seen EXCEPT ![c] = <<>>]
       ELSE /\ pc' = [pc EXCEPT ![c] = "return"]
            /\ reloads' = [reloads EXCEPT ![c] = 0]
            /\ seen' = [seen EXCEPT ![c] = <<cache>>]
    /\ UNCHANGED <<now, pathExists, stores, cache, priv, dbh, detects, ticks>>
    /\ UNCHANGED queryVars

\* GetWrapper that swallows the missing path and lets _ensure_cache return the
\* held snapshot (a slip the code does not make)
GetWrapperServingStale(c, st) ==
    /\ pc[c] = "reload"
    /\ IF ~pathExists
       THEN /\ pc' = [pc EXCEPT ![c] = "return"]
            /\ UNCHANGED <<priv, ret, dbh>>
       ELSE IF find_linear_db(st) = <<>> THEN Raise(c, "ValueError")
       ELSE /\ dbh' = [dbh EXCEPT ![c] = find_linear_db(st)[1]]
            /\ pc' = [pc EXCEPT ![c] = "stores_check"]
            /\ UNCHANGED <<priv, ret>>
    /\ UNCHANGED <<now, pathExists, stores, cache, seen, reloads, detects, ticks,
                   accesses>>
    /\ UNCHANGED queryVars

\* _get_wrapper (with _check_db_exists) and _find_linear_db, on the content st
GetWrapper(c, st) ==
    /\ pc[c] = "reload"
    /\ IF ~pathExists THEN Raise(c, "FileNotFoundError")
       ELSE IF find_linear_db(st) = <<>> THEN Raise(c, "ValueError")
       ELSE /\ dbh' = [dbh EXCEPT ![c] = find_linear_db(st)[1]]
            /\ pc' = [pc EXCEPT ![c] = "stores_check"]
            /\ UNCHANGED <<priv, ret>>
    /\ UNCHANGED <<now, pathExists, stores, cache, seen, reloads, detects, ticks, accesses>>
    /\ UNCHANGED queryVars

\* if self._stores is None: (the true branch continues in Detect)
\* otherwise cache = CachedData(loaded_at=time.time())
CheckStores(c) ==
    /\ pc[c] = "stores_check"
    /\ IF stores = <<>>
       THEN /\ pc' = [pc EXCEPT ![c] = "detect"]
            /\ UNCHANGED priv
       ELSE /\ pc' = [pc EXCEPT ![c] = "load_teams"]
            /\ priv' = [priv EXCEPT ![c] = NewCachedData(now)]
    /\ UNCHANGED <<now, pathExists, stores, cache, ret, seen, dbh, reloads, detects,
                   ticks, accesses>>
    /\ UNCHANGED queryVars

\* self._stores = detect_stores(db); cache = CachedData(loaded_at=time.time())
Detect(c) ==
    /\ pc[c] = "detect"
    /\ stores' = <<detect_stores(dbh[c])>>
    /\ detects' = detects + 1
    /\ priv' = [priv EXCEPT ![c] = NewCachedData(now)]
    /\ pc' = [pc EXCEPT ![c] = "load_teams"]
    /\ UNCHANGED <<now, pathExists, cache, ret, seen, dbh, reloads, ticks, accesses>>
    /\ UNCHANGED queryVars

(***************************************************************************)
(* The five load sections.  Each reads self._stores when it runs, reads    *)
(* the records through the local db, and fills the local cache.            *)
(***************************************************************************)
\* what the section of the teams, users, states or issues makes of the map
SectionResult(c, section) ==
    CASE section = "teams" ->
            IF Truthy(stores[1].teams)
            THEN load_teams(TableRecs(dbh[c], stores[1].teams), 1, priv[c].teams)
            ELSE [err |-> FALSE, d |-> priv[c].teams]
      [] section = "users" ->
            load_users(RecsOfAll(dbh[c], stores[1].users, 1), 1, priv[c].users)
      [] section = "states" ->
            load_states(RecsOfAll(dbh[c], stores[1].workflow_states, 1), 1,
                        priv[c].states)
      [] section = "issues" ->
            IF Truthy(stores[1].issues)
            THEN load_issues(priv[c].teams, TableRecs(dbh[c], stores[1].issues), 1,
                             priv[c].issues)
            ELSE [err |-> FALSE, d |-> priv[c].issues]
CommentsSection(c) ==
    IF Truthy(stores[1].comments)
    THEN load_comments(TableRecs(dbh[c], stores[1].comments), 1, priv[c].comments,
                       priv[c].comments_by_issue)
    ELSE [err |-> "", d |-> priv[c].comments, idx |-> priv[c].comments_by_issue]

\* the local cache after a section that did not raise
Filled(c, section, d) ==
    [priv[c] EXCEPT ![section] = d, !.done = @ \cup {section}]

\* a section ends: KeyError leaves the reload, otherwise the next section follows
SectionEnds(c, section, next) ==
    IF SectionResult(c, section).err THEN Raise(c, "KeyError")
    ELSE /\ priv' = [priv EXCEPT ![c] = Filled(c, section, SectionResult(c, section).d)]
         /\ pc' = [pc EXCEPT ![c] = next]
         /\ UNCHANGED <<ret, dbh>>

\* a slip the code does not make: the cache under construction is the shared one
LoadTeamsInPlace(c) ==
    /\ pc[c] = "load_teams"
    /\ SectionEnds(c, "teams", "load_users")
    /\ cache' = IF SectionResult(c, "teams").err THEN cache ELSE priv'[c]
    /\ UNCHANGED <<now, pathExists, stores, seen, reloads, detects, ticks, accesses>>
    /\ UNCHANGED queryVars

LoadTeams(c) ==
    /\ pc[c] = "load_teams"
    /\ SectionEnds(c, "teams", "load_users")
    /\ UNCHANGED <<now, pathExists, stores, cache, seen, reloads, detects, ticks, accesses>>
    /\ UNCHANGED queryVars

LoadUsers(c) ==
    /\ pc[c] = "load_users"
    /\ SectionEnds(c, "users", "load_states")
    /\ UNCHANGED <<now, pathExists, stores, cache, seen, reloads, detects, ticks, accesses>>
    /\ UNCHANGED queryVars

LoadStates(c) ==
    /\ pc[c] = "load_states"
    /\ SectionEnds(c, "states", "load_issues")
    /\ UNCHANGED <<now, pathExists, stores, cache, seen, reloads, detects, ticks, accesses>>
    /\ UNCHANGED queryVars

LoadIssues(c) ==
    /\ pc[c] = "load_issues"
    /\ SectionEnds(c, "issues", "load_comments")
    /\ UNCHANGED <<now, pathExists, stores, cache, seen, reloads, detects, ticks, accesses>>
    /\ UNCHANGED queryVars

\* the comments section: an exception of _extract_comment_text leaves the reload
LoadComments(c) ==
    /\ pc[c] = "load_comments"
    /\ IF CommentsSection(c).err # "" THEN Raise(c, CommentsSection(c).err)
       ELSE /\ priv' = [priv EXCEPT ![c] =
                           [Filled(c, "comments", CommentsSection(c).d)
                                EXCEPT !.comments_by_issue = CommentsSection(c).idx]]
            /\ pc' = [pc EXCEPT ![c] = "publish"]
            /\ UNCHANGED <<ret, dbh>>
    /\ UNCHANGED <<now, pathExists, stores, cache, seen, reloads, detects, ticks,
                   accesses>>
    /\ UNCHANGED queryVars

\* self._cache = cache, the last line of _reload_cache
Publish(c) ==
    /\ pc[c] = "publish"
    /\ cache' = priv[c]
    /\ pc' = [pc EXCEPT ![c] = "return"]
    /\ priv' = [priv EXCEPT ![c] = NewCachedData(0)]
    /\ dbh' = [dbh EXCEPT ![c] = NoDb]
    /\ UNCHANGED <<now, pathExists, stores, ret, seen, reloads, detects, ticks, accesses>>
    /\ UNCHANGED queryVars

\* return self._cache: the accessor hands the snapshot to the running tool
Return(c) ==
    /\ pc[c] = "return"
    /\ ret' = [ret EXCEPT ![c] = "ok"]
    /\ pc' = [pc EXCEPT ![c] = "idle"]
    /\ seen' = [seen EXCEPT ![c] = <<>>]
    /\ reads' = IF tool = "none" THEN reads ELSE Append(reads, cache)
    /\ UNCHANGED <<now, pathExists, stores, cache, priv, dbh, reloads, detects, ticks, accesses>>
    /\ UNCHANGED <<tool, snapshot, request, pages, resp, calls>>

(***************************************************************************)
(* The environment: the clock, and the database directory appearing or     *)
(* disappearing.  The clock is read by is_expired and by                   *)
(* CachedData(loaded_at=time.time()) only, so it is advanced only before a *)
(* step that reads it: advancing it elsewhere changes nothing a caller     *)
(* can observe.                                                            *)
(***************************************************************************)
ReadsClockNext(c) ==
    \/ pc[c] \in {"stores_check", "detect"}
    \/ pc[c] = "idle" /\ MayAccess(c)

Tick(d) ==
    /\ ticks < MaxTicks
    /\ \E c \in Callers : ReadsClockNext(c)
    /\ now' = now + d
    /\ ticks' = ticks + 1
    /\ UNCHANGED <<pathExists, stores, cache, pc, priv, ret, seen, dbh, reloads,
                   detects, accesses>>
    /\ UNCHANGED queryVars

PathChange ==
    /\ pathExists' = ~pathExists
    /\ UNCHANGED <<now, stores, cache, pc, priv, ret, seen, dbh, reloads, detects,
                   ticks, accesses>>
    /\ UNCHANGED queryVars

Env ==
    \/ \E d \in TickSteps : Tick(d)
    \/ PathChange

\* Callers on threads: any interleaving.  The contents are those that differ in
\* what a reload leaves behind for the other caller.
ThreadedStores == {StoreGood, StoreNoTeams, StoreBadIssue, StoreNoDb}

Next ==
    \/ \E c \in Callers : EnsureCheck(c)
    \/ \E c \in Callers, st \in ThreadedStores : GetWrapper(c, st)
    \/ \E c \in Callers : CheckStores(c)
    \/ \E c \in Callers : Detect(c)
    \/ \E c \in Callers : LoadTeams(c)
    \/ \E c \in Callers : LoadUsers(c)
    \/ \E c \in Callers : LoadStates(c)
    \/ \E c \in Callers : LoadIssues(c)
    \/ \E c \in Callers : LoadComments(c)
    \/ \E c \in Callers : Publish(c)
    \/ \E c \in Callers : Return(c)
    \/ Env

Spec == Init /\ [][Next]_vars

\* Request-serialized callers (the execution model of the MCP server's tool
\* functions): an access runs to its end before the next one starts.
Alone(c) == \A o \in Callers \ {c} : pc[o] = "idle"

NextSerial ==
    \/ \E c \in Callers : Alone(c) /\ EnsureCheck(c)
    \/ \E c \in Callers, st \in StoreVersions : Alone(c) /\ GetWrapper(c, st)
    \/ \E c \in Callers : Alone(c) /\ CheckStores(c)
    \/ \E c \in Callers : Alone(c) /\ Detect(c)
    \/ \E c \in Callers : Alone(c) /\ LoadTeams(c)
    \/ \E c \in Callers : Alone(c) /\ LoadUsers(c)
    \/ \E c \in Callers : Alone(c) /\ LoadStates(c)
    \/ \E c \in Callers : Alone(c) /\ LoadIssues(c)
    \/ \E c \in Callers : Alone(c) /\ LoadComments(c)
    \/ \E c \in Callers : Alone(c) /\ Publish(c)
    \/ \E c \in Callers : Alone(c) /\ Return(c)
    \/ Env

SpecSerial == Init /\ [][NextSerial]_vars

(***************************************************************************)
(* One caller reloading from any database content: the object stores are   *)
(* drawn from a pool that holds the tables Linear writes, tables whose     *)
(* sampled record satisfies two predicates of detect_stores, two contents  *)
(* of the comment store, and comment bodies of every JSON shape.           *)
(***************************************************************************)
\* the sequences of at most n distinct elements of S: a store's records in the
\* order the store yields them
Arrangements(S, n) ==
    {s \in UNION {[1..k -> S] : k \in 0..n} :
        \A i, j \in 1..Len(s) : i # j => s[i] # s[j]}

TablePool ==
    LET sMention == <<"s", "u", "g", "g", "e", "s", "t", "i", "o", "n", "_", "u", "s",
                      "e", "r", "M", "e", "n", "t", "i", "o", "n", "s">>
        Doc(items) == [k |-> "dict", type |-> JStr(<<"d", "o", "c">>),
                       content |-> [k |-> "list", items |-> items]]
        Text(v) == [k |-> "dict", type |-> JStr(<<"t", "e", "x", "t">>), text |-> v]
        Comment(id, body) == [id |-> id, issueId |-> <<"i", "2">>, userId |-> <<"u", "2">>,
                              bodyData |-> body, createdAt |-> 5]
    IN  {Table(<<"h", "1">>, <<TeamEng>>),
         Table(<<"h", "5">>, <<IssueA, IssueB>>),
         \* a record with the fields of an issue and of a comment
         Table(<<"h", "7">>,
               <<[id |-> <<"i", "2">>, number |-> 7, teamId |-> <<"t", "9">>,
                  stateId |-> <<"s", "2">>, title |-> <<"A", "d", "d">>,
                  issueId |-> <<"i", "1">>, userId |-> <<"u", "1">>,
                  bodyData |-> [k |-> "null"], createdAt |-> 1]>>),
         \* a record with the fields of an issue and of a team
         Table(<<"h", "8">>,
               <<[id |-> <<"i", "2">>, number |-> 7, teamId |-> <<"t", "9">>,
                  stateId |-> <<"s", "2">>, title |-> <<"A", "d", "d">>,
                  key |-> <<"O", "P", "S">>, name |-> <<"O", "p", "s">>]>>),
         Table(<<"h", "6">>, <<CommentA, CommentNoId, CommentARepeat, CommentB>>),
         \* {"type": "text", "text": null} alone, a mention without attrs and one
         \* without label, a node without content; then the null text inside a doc
         Table(<<"h", "6">>,
               <<Comment(<<"c", "3">>, Text([k |-> "null"])),
                 Comment(<<"c", "4">>,
                         Doc(<<[k |-> "dict", type |-> JStr(sMention)],
                               [k |-> "dict", type |-> JStr(sMention),
                                attrs |-> [k |-> "dict"]],
                               [k |-> "dict", type |-> JStr(<<"x">>)],
                               Text(JStr(<<"y">>))>>)),
                 Comment(<<"c", "1">>,
                         [k |-> "str", s |-> <<"[", "]">>,
                          parsed |-> <<[k |-> "list", items |-> <<>>]>>]),
                 Comment(<<"c", "5">>, Doc(<<Text([k |-> "null"])>>))>>),
         \* {"type": "doc", "content": null}
         Table(<<"h", "9">>,
               <<Comment(<<"c", "6">>, [k |-> "dict", type |-> JStr(<<"d", "o", "c">>),
                                        content |-> [k |-> "null"]])>>),
         \* a mention with "attrs": null
         Table(<<"h", "9">>,
               <<CommentB,
                 Comment(<<"c", "7">>,
                         Doc(<<[k |-> "dict", type |-> JStr(sMention),
                                attrs |-> [k |-> "null"]]>>))>>)}

InitReload == Constructed /\ pathExists = TRUE /\ QueryIdle

\* the IndexedDB holds at most MaxTables object stores, each name once
NextReload ==
    \/ EnsureCheck("c1")
    \/ \E ts \in {a \in Arrangements(TablePool, MaxTables) :
                     \A i, j \in 1..Len(a) : i # j => a[i].name # a[j].name} :
          GetWrapper("c1", <<MetaDb, MainDb(ts)>>)
    \/ CheckStores("c1")
    \/ Detect("c1")
    \/ LoadTeams("c1")
    \/ LoadUsers("c1")
    \/ LoadStates("c1")
    \/ LoadIssues("c1")
    \/ LoadComments("c1")
    \/ Publish("c1")
    \/ Return("c1")
    \/ \E d \in TickSteps : Tick(d)

SpecReload == InitReload /\ [][NextReload]_vars

(***************************************************************************)
(* Queries on one snapshot.  The snapshot is what _reload_cache makes of   *)
(* the records of a store; the client of list_issues and get_my_issues     *)
(* passes the nextCursor of a page as the cursor of its next call until    *)
(* nextCursor is None.                                                     *)
(***************************************************************************)
\* the CachedData _reload_cache builds from these records
SnapshotOf(teamRecs, userRecs, stateRecs, issueRecs) ==
    LET teams == load_teams(teamRecs, 1, <<>>).d
    IN  [NewCachedData(StartTime) EXCEPT
            !.teams = teams,
            !.users = load_users(userRecs, 1, <<>>).d,
            !.states = load_states(stateRecs, 1, <<>>).d,
            !.issues = load_issues(teams, issueRecs, 1, <<>>).d,
            !.done = Sections]

\* issue records: ids whose order as str is not their order as numbers, the
\* priorities Linear writes (0 is "No priority"), and records without one
IssuePool ==
    {[id |-> <<"I", "2">>, number |-> 1, teamId |-> <<"t", "1">>,
      stateId |-> <<"s", "1">>, title |-> <<"F", "i", "x">>, priority |-> 1,
      assigneeId |-> <<"u", "1">>, updatedAt |-> 5],
     [id |-> <<"I", "1">>, number |-> 2, teamId |-> <<"t", "2">>,
      stateId |-> <<"s", "2">>, title |-> <<"A", "d", "d">>, priority |-> 1,
      assigneeId |-> <<"u", "1">>, updatedAt |-> 2000000000],
     [id |-> <<"I", "3">>, number |-> 3, teamId |-> <<"t", "1">>,
      stateId |-> <<"s", "1">>, title |-> <<"D", "o", "c">>,
      assigneeId |-> <<"u", "1">>],
     [id |-> <<"I", "1", "0">>, number |-> 4, teamId |-> <<"t", "1">>,
      stateId |-> <<"s", "2">>, title |-> <<"T", "r", "y">>, priority |-> 0,
      assigneeId |-> <<"u", "1">>, updatedAt |-> 1],
     [id |-> <<"I", "0">>, number |-> 5, teamId |-> <<"t", "1">>,
      stateId |-> <<"s", "1">>, title |-> <<"L", "o", "w">>, priority |-> 4,
      assigneeId |-> <<"u", "2">>, updatedAt |-> 9]}

ListRequests ==
    [assignee : {None, <<"a", "n">>, <<"z", "z">>}, team : {None, <<"e", "n", "g">>},
     state_type : {None, sStarted},
     priority : {NoneInt, 1},
     updated_after : {[given |-> FALSE, ts |-> NoneInt], [given |-> TRUE, ts |-> 3],
                      [given |-> TRUE, ts |-> NoneInt]},
     limit : (1..MaxLimit) \cup {200}, cursor : {None}, query : {None}]

InitList ==
    /\ Constructed /\ pathExists = TRUE
    /\ tool \in {"list_issues", "get_my_issues"}
    /\ \E recs \in Arrangements(IssuePool, MaxIssues) :
          snapshot = SnapshotOf(<<TeamEng, TeamOps>>, <<UserAnn, UserBob>>,
                                <<StateDoing, StateDone>>, recs)
    /\ request \in ListRequests
    /\ tool = "get_my_issues" =>
          request.assignee # None /\ request.team = None /\ request.priority = NoneInt
    /\ pages = <<>>
    /\ resp = <<>>
    /\ calls = 0
    /\ reads = <<>>

\* the client stops when a response carries no nextCursor
PagingDone == calls > 0 /\ request.cursor = None
MaxCalls == MaxIssues + 2

\* one call of the tool r is the response of, and the client's next request
Page(r) ==
    /\ ~PagingDone
    /\ calls < MaxCalls
    /\ resp' = <<r>>
    /\ pages' = pages \o r.issues
    /\ request' = [request EXCEPT !.cursor = r.nextCursor]
    /\ calls' = calls + 1
    /\ UNCHANGED <<tool, snapshot, reads>>
    /\ UNCHANGED <<now, pathExists, stores, cache, pc, priv, ret, seen, dbh, reloads,
                   detects, ticks, accesses>>

ListIssuesPage == tool = "list_issues" /\ Page(list_issues(snapshot, request))
GetMyIssuesPage == tool = "get_my_issues" /\ Page(get_my_issues(snapshot, request))

NextList == ListIssuesPage \/ GetMyIssuesPage

SpecList == InitList /\ [][NextList]_vars

(***************************************************************************)
(* One call of list_issues(assignee="an") on a reader that was just        *)
(* constructed, with the accessor calls it makes one after the other while *)
(* the clock runs and Linear rewrites the IndexedDB.                       *)
(***************************************************************************)
InitQuery ==
    /\ Constructed /\ pathExists = TRUE
    /\ tool = "list_issues"
    /\ snapshot = NewCachedData(0)
    /\ \E limit \in 1..MaxLimit :
          request = [NoArgs EXCEPT !.assignee = <<"a", "n">>, !.limit = limit]
    /\ pages = <<>>
    /\ resp = <<>>
    /\ calls = 0
    /\ reads = <<>>

\* the tool returns: the enrich loop and the return statement of list_issues
Answer ==
    /\ resp = <<>> /\ pc["c1"] = "idle" /\ ret["c1"] = "ok"
    /\ Len(reads) = AccessesNeeded
    /\ LET results ==
               [j \in 1..Len(ListingRead.page) |->
                   LET issue == ListingRead.page[j]
                   IN  [f \in DOMAIN issue \cup {"state", "stateType"} |->
                          IF f = "state"
                              THEN get_state_name(reads[1 + 2 * j].states, issue.stateId)
                          ELSE IF f = "stateType"
                              THEN get_state_type(reads[2 + 2 * j].states, issue.stateId)
                          ELSE issue[f]]]
       IN  resp' = IF Len(reads) = 1 THEN <<EmptyListing("")>>
                   ELSE <<[error |-> "", issues |-> results,
                           nextCursor |-> IF ListingRead.has_more /\ results # <<>>
                                          THEN results[Len(results)].id ELSE None,
                           totalCount |-> ListingRead.total_count]>>
    /\ pages' = pages \o resp'[1].issues
    /\ calls' = calls + 1
    /\ UNCHANGED <<tool, snapshot, request, reads>>
    /\ UNCHANGED <<now, pathExists, stores, cache, pc, priv, ret, seen, dbh, reloads,
                   detects, ticks, accesses>>

\* what a reload finds: the stores as Linear wrote them, the team store still
\* empty, an issue reassigned and a user and a state renamed
NextQuery ==
    \/ EnsureCheck("c1")
    \/ \E st \in {StoreGood, StoreNoTeams,
                   <<MetaDb,
                     MainDb(Tables(<<TeamEng>>, <<UserAnnCopy>>, <<UserBob>>,
                                   <<[StateDoing EXCEPT !.name = <<"G", "o">>],
                                     [StateDone EXCEPT !.type = sStarted]>>,
                                   <<[IssueA EXCEPT !.stateId = <<"s", "2">>], IssueB>>))>>} :
          GetWrapper("c1", st)
    \/ CheckStores("c1")
    \/ Detect("c1")
    \/ LoadTeams("c1")
    \/ LoadUsers("c1")
    \/ LoadStates("c1")
    \/ LoadIssues("c1")
    \/ LoadComments("c1")
    \/ Publish("c1")
    \/ Return("c1")
    \/ \E d \in TickSteps : Tick(d)
    \/ Answer

SpecQuery == InitQuery /\ [][NextQuery]_vars

(***************************************************************************)
(* Paging while the data changes: between two calls of the client a reload *)
(* publishes a snapshot in which an issue is gone or has another assignee, *)
(* and a client may send a cursor that is no issue's id.                   *)
(***************************************************************************)
InitPaging ==
    /\ Constructed /\ pathExists = TRUE
    /\ tool \in {"list_issues", "get_my_issues", "search_issues"}
    /\ \E recs \in Arrangements(IssuePool, MaxIssues) :
          snapshot = SnapshotOf(<<TeamEng, TeamOps>>, <<UserAnn, UserBob>>,
                                <<StateDoing, StateDone>>, recs)
    /\ request \in [assignee : {None, <<"a", "n">>}, team : {None},
                     state_type : {None, sStarted}, priority : {NoneInt},
                     updated_after : {[given |-> FALSE, ts |-> NoneInt]},
                     limit : 1..MaxLimit, cursor : {None, <<"I", "9">>},
                     query : {None, <<>>, <<"D">>}]
    /\ tool = "get_my_issues" => request.assignee # None
    /\ (tool = "search_issues") = (request.query # None)
    /\ tool = "search_issues" => request.assignee = None /\ request.state_type = None
    /\ pages = <<>>
    /\ resp = <<>>
    /\ calls = 0
    /\ reads = <<>>

SearchIssuesPage == tool = "search_issues" /\ Page(search_issues(snapshot, request))

\* the snapshot the next call reads was loaded after Linear deleted an issue or
\* gave it to another user
SnapshotReplaced ==
    /\ calls > 0 /\ ~PagingDone
    /\ \E i \in 1..Len(snapshot.issues) :
          \/ snapshot' = [snapshot EXCEPT !.issues =
                             SubSeq(@, 1, i - 1) \o SubSeq(@, i + 1, Len(@))]
          \/ /\ snapshot.issues[i].assigneeId # UserBob.id
             /\ snapshot' = [snapshot EXCEPT !.issues[i].assigneeId = UserBob.id]
    /\ UNCHANGED <<tool, request, pages, resp, calls, reads>>
    /\ UNCHANGED <<now, pathExists, stores, cache, pc, priv, ret, seen, dbh, reloads,
                   detects, ticks, accesses>>

NextPaging == ListIssuesPage \/ GetMyIssuesPage \/ SearchIssuesPage \/ SnapshotReplaced

SpecPaging == InitPaging /\ [][NextPaging]_vars

\* team records: a name that holds another team's key
TeamPool ==
    {[id |-> <<"t", "1">>, key |-> <<"E", "N", "G">>, name |-> <<"C", "o", "r", "e">>],
     [id |-> <<"t", "2">>, key |-> <<"O", "P", "S">>,
      name |-> <<"E", "n", "g", " ", "O", "p", "s">>],
     [id |-> <<"t", "3">>, key |-> <<"Q", "A">>,
      name |-> <<"Q", "u", "a", "l", "i", "t", "y">>]}

\* user records, one for each score of find_user on "dan", two with the same
\* score, one without a name and one that does not match
UserPool ==
    {[id |-> <<"u", "1">>, name |-> <<"D", "a", "n", " ", "K", "o">>,
      displayName |-> <<"d", "k">>, email |-> <<"d">>],
     [id |-> <<"u", "2">>, name |-> <<"M", "c", "D", "a", "n">>,
      displayName |-> <<"m", "c">>, email |-> <<"m">>],
     [id |-> <<"u", "3">>, name |-> <<"A", "l", " ", "D", "a", "n">>,
      displayName |-> <<"a", "l">>, email |-> <<"a">>],
     [id |-> <<"u", "4">>, displayName |-> <<"D", "a", "n">>, email |-> <<"n">>],
     [id |-> <<"u", "5">>, name |-> <<"D", "a", "n", "a">>,
      displayName |-> <<"d", "a", "n", "a">>, email |-> <<"e">>],
     [id |-> <<"u", "6">>, name |-> <<"B", "o">>, displayName |-> <<"b", "o">>,
      email |-> <<"b">>]}

InitFind ==
    /\ Constructed /\ pathExists = TRUE
    /\ tool \in {"find_team", "find_user"}
    /\ \E teamRecs \in Arrangements(TeamPool, MaxTeams),
          userRecs \in Arrangements(UserPool, MaxUsers) :
          /\ tool = "find_team" => userRecs = <<>>
          /\ tool = "find_user" => teamRecs = <<>>
          /\ snapshot = SnapshotOf(teamRecs, userRecs, <<>>, <<>>)
    /\ \E search \in {<<"d", "a", "n">>, <<"D", "A", "N">>, <<"e", "n", "g">>,
                       <<"O", "p", "s">>, <<"q", "a">>, <<"o">>, <<>>} :
          request = [NoArgs EXCEPT !.team = IF tool = "find_team" THEN search ELSE None,
                                   !.assignee = IF tool = "find_user" THEN search ELSE None]
    /\ pages = <<>>
    /\ resp = <<>>
    /\ calls = 0
    /\ reads = <<>>

\* one call of a lookup; r is what it returns: <<>> for None
Lookup(r) ==
    /\ calls = 0
    /\ resp' = r
    /\ calls' = 1
    /\ UNCHANGED <<tool, snapshot, request, pages, reads>>
    /\ UNCHANGED <<now, pathExists, stores, cache, pc, priv, ret, seen, dbh, reloads,
                   detects, ticks, accesses>>

FindTeam == tool = "find_team" /\ Lookup(find_team(snapshot.teams, request.team))
FindUser == tool = "find_user" /\ Lookup(find_user(snapshot.users, request.assignee))

NextFind == FindTeam \/ FindUser

SpecFind == InitFind /\ [][NextFind]_vars

(***************************************************************************)
(* Claims about the cache.                                                 *)
(***************************************************************************)
\* a CachedData no load section has touched, or one all five have run on
Complete(s) == s.done = {} \/ s.done = Sections

\* C1: in every interleaving of reloads and accesses, the snapshot readers are
\* handed (self._cache) is the never-loaded initial one or one on which all five
\* load sections have run, and self._cache changes only by the single assignment
\* of a caller's fully loaded local cache.
C1_SnapshotAtomic ==
    /\ [](Complete(cache) /\ (cache.done = {} => cache = NewCachedData(0)))
    /\ [][cache' # cache =>
            \E c \in Callers : /\ pc[c] = "publish"
                               /\ priv[c].done = Sections
                               /\ cache' = priv[c]]_vars

\* C1 witness: one caller is handed the published, fully loaded snapshot while
\* the other has a partly filled local cache.
C1_Witness ==
    \E c, o \in Callers :
        /\ pc[c] = "return" /\ cache.done = Sections /\ cache.teams # <<>>
        /\ pc[o] = "load_issues" /\ priv[o].done = {"teams", "users", "states"}

\* C2: an access starts a reload exactly when now - loaded_at > 300 or the team
\* map is empty; it starts at most one; with a team held, an access at
\* loaded_at + 299 starts none and returns the snapshot it tested, unchanged.
C2_TtlReload ==
    /\ [](\A c \in Callers : reloads[c] <= 1)
    /\ [][\A c \in Callers :
            /\ (pc[c] = "idle" /\ pc'[c] # "idle") =>
                 /\ pc'[c] = "reload" <=>
                        (now - cache.loaded_at > 300 \/ Len(cache.teams) = 0)
                 /\ pc'[c] = "reload" => reloads'[c] = 1
                 /\ pc'[c] # "reload" => pc'[c] = "return" /\ reloads'[c] = 0
                 /\ (Len(cache.teams) > 0 /\ now - cache.loaded_at <= 299)
                        => pc'[c] = "return"
                 /\ (Len(cache.teams) > 0 /\ now - cache.loaded_at >= 301)
                        => pc'[c] = "reload"
                 /\ cache' = cache
            /\ (pc[c] = "return" /\ pc'[c] = "idle" /\ reloads[c] = 0) =>
                 /\ ret'[c] = "ok"
                 /\ cache' = cache
                 /\ seen[c] = <<cache>>]_vars

\* C2 witness: an access 301 seconds after the load of a snapshot that holds
\* teams has started its one reload.
C2_Witness ==
    \E c \in Callers :
        /\ pc[c] = "reload" /\ reloads[c] = 1
        /\ Len(cache.teams) > 0 /\ now - cache.loaded_at = 301

\* C3 (as claimed): at most one execution of _reload_cache is in flight.
C3_ReloadsCoalesced == Cardinality({c \in Callers : pc[c] \in ReloadPcs}) <= 1

\* C4 (as claimed): detect_stores runs at most once, and a stored mapping is
\* never replaced.
C4_DetectOnce ==
    /\ [](detects <= 1)
    /\ [][stores # <<>> => stores' = stores]_vars

\* C5: with the path missing, an access to an unexpired snapshot that holds teams
\* starts no reload and returns ok; the reload of an expired or empty one raises
\* FileNotFoundError and leaves self._cache, loaded_at included, as it was.
C5_MissingPath ==
    [][\A c \in Callers :
        /\ (~pathExists /\ pc[c] = "idle" /\ pc'[c] # "idle"
              /\ Len(cache.teams) > 0 /\ now - cache.loaded_at <= 300)
             => pc'[c] = "return" /\ cache' = cache
        /\ (~pathExists /\ pc[c] = "return" /\ pc'[c] = "idle" /\ reloads[c] = 0)
             => ret'[c] = "ok" /\ cache' = cache
        /\ (~pathExists /\ pc[c] = "reload" /\ pc'[c] # "reload")
             => /\ ret'[c] = "FileNotFoundError"
                /\ pc'[c] = "idle"
                /\ cache' = cache]_vars

\* C5 witness: the reload of an expired snapshot that holds teams has raised
\* FileNotFoundError and the snapshot is still held.
C5_Witness ==
    \E c \in Callers :
        /\ ret[c] = "FileNotFoundError" /\ ~pathExists
        /\ Len(cache.teams) > 0 /\ now - cache.loaded_at > 300

\* C6 (as claimed): no record without id ends a load pass; every reload that
\* got its database runs to its last line.
C6_MalformedSkipped == \A c \in Callers : ret[c] # "KeyError"

(***************************************************************************)
(* Claims about the queries.                                               *)
(***************************************************************************)
\* the whole answer: what list_issues returns when one page holds everything
FullListing == list_issues(snapshot, [request EXCEPT !.cursor = None, !.limit = 100]).issues

Ids(issues) == [i \in 1..Len(issues) |-> issues[i].id]

\* C7: for a fixed snapshot, fixed filters and a limit >= 1, following nextCursor
\* from a first call without cursor ends after at most max(1, n) calls for n
\* filtered issues, and the pages concatenated are the full sorted filtered list:
\* every filtered issue once, none missing, in canonical order.
C7_PagesReproduceList ==
    tool = "list_issues" =>
        LET n == IF Len(FullListing) = 0 THEN 1 ELSE Len(FullListing)
        IN  /\ calls <= n
            /\ calls = n => PagingDone
            /\ PagingDone =>
                  /\ pages = FullListing
                  /\ Cardinality(Range(Ids(pages))) = Len(pages)
                  /\ \A i, j \in 1..Len(pages) : i < j => KeyLess(pages[i], pages[j])

\* C7 witness: three filtered issues came back in three pages of one issue
C7_Witness ==
    /\ tool = "list_issues" /\ PagingDone
    /\ request.limit = 1 /\ calls = 3 /\ Len(pages) = 3

\* the priority an issue sorts by: 4 when it has none or has Linear's 0
EffectivePriority(x) == IF x.priority \in {NoneInt, 0} THEN 4 ELSE x.priority

\* C8 (amended): list_issues and get_my_issues return the issues ascending by
\* effective priority, where an absent priority and priority 0 both count as 4,
\* ties broken by ascending id: of two returned issues the earlier one has the
\* lower effective priority, or the same and the lower id.
C8_CanonicalOrder ==
    tool \in {"list_issues", "get_my_issues"} =>
        \A i, j \in 1..Len(pages) : i < j =>
            \/ EffectivePriority(pages[i]) < EffectivePriority(pages[j])
            \/ /\ EffectivePriority(pages[i]) = EffectivePriority(pages[j])
               /\ StrLess(pages[i].id, pages[j].id)

\* C8 witness: the answer holds two issues of priority 1 in id order although the
\* store yields them in the other order, then one of priority 0 and one without
C8_Witness ==
    /\ tool = "get_my_issues" /\ PagingDone
    /\ Len(snapshot.issues) = 3 /\ snapshot.issues[1].priority = 0
    /\ \E i, j, k \in 1..Len(pages) :
          /\ i < j /\ j < k
          /\ pages[i].priority = 1 /\ pages[j].priority = 1
          /\ pages[k].priority = 0

\* C8 as the spec states it: only an absent priority counts as 4, and an issue
\* with a lower priority number always precedes one with a higher number
C8_AsStated ==
    tool \in {"list_issues", "get_my_issues"} =>
        \A i, j \in 1..Len(pages) : i < j =>
            LET pa == IF pages[i].priority = NoneInt THEN 4 ELSE pages[i].priority
                pb == IF pages[j].priority = NoneInt THEN 4 ELSE pages[j].priority
            IN  /\ pa < pb \/ (pa = pb /\ ~StrLess(pages[j].id, pages[i].id))
                /\ (pages[i].priority # NoneInt /\ pages[j].priority # NoneInt)
                      => ~(pages[j].priority < pages[i].priority)

\* C9: when some team's key equals the search term without regard to case,
\* find_team returns a team with that key, whatever the names of the teams
\* before it hold.
C9_KeyMatchPreferred ==
    (/\ tool = "find_team" /\ calls = 1
     /\ \E t \in Range(snapshot.teams) : Lower(t.key) = Lower(request.team))
        => resp # <<>> /\ Lower(resp[1].key) = Lower(request.team)

\* the claim's words on find_user
NameOf(u) == Lower(ToStr(u.name))
DisplayOf(u) == Lower(ToStr(u.displayName))
MatchesTerm(u, term) == Contains(NameOf(u), term) \/ Contains(DisplayOf(u), term)
StartsLaterWord(name, term) ==
    \E i \in 2..Len(name) :
        name[i - 1] = " " /\ StartsWith(SubSeq(name, i, Len(name)), term)
ClaimedScore(u, term) ==
    IF StartsWith(NameOf(u), term) THEN 100
    ELSE IF StartsLaterWord(NameOf(u), term) THEN 50
    ELSE IF StartsWith(DisplayOf(u), term) THEN 40
    ELSE 10

\* C10: find_user returns no user exactly when no user's name or displayName
\* holds the term; otherwise it returns, among the users that hold it, the first
\* in the order of the user map of those with the highest score.
C10_BestMatchFirst ==
    (tool = "find_user" /\ calls = 1) =>
        LET term == Lower(request.assignee)
            users == snapshot.users
            M == {i \in 1..Len(users) : MatchesTerm(users[i], term)}
        IN  IF M = {} THEN resp = <<>>
            ELSE /\ resp # <<>>
                 /\ \E i \in M :
                       /\ resp[1] = users[i]
                       /\ \A j \in M :
                             /\ ClaimedScore(users[j], term) <= ClaimedScore(users[i], term)
                             /\ ClaimedScore(users[j], term) = ClaimedScore(users[i], term)
                                   => i <= j

\* C10 witness: the second of three matching users is returned: it beats the
\* first on the score and ties with the third
C10_Witness ==
    /\ tool = "find_user" /\ calls = 1 /\ Len(snapshot.users) = 3
    /\ resp = <<snapshot.users[2]>>
    /\ LET term == Lower(request.assignee)
       IN  /\ \A i \in 1..3 : MatchesTerm(snapshot.users[i], term)
           /\ ClaimedScore(snapshot.users[1], term) < ClaimedScore(snapshot.users[2], term)
           /\ ClaimedScore(snapshot.users[3], term) = ClaimedScore(snapshot.users[2], term)

(***************************************************************************)
(* Claims about the loaded data.                                           *)
(***************************************************************************)
\* C11: in every snapshot readers are handed, each issue's identifier is
\* "<key>-<number>" with the key of the team of the same snapshot whose id is the
\* issue's teamId, and the prefix is "???" exactly when the snapshot has no team
\* with that id.
C11_IdentifierFromSnapshotTeam ==
    \A i \in 1..Len(cache.issues) :
        LET issue == cache.issues[i]
            T == {t \in Range(cache.teams) : t.id = issue.teamId}
            prefixes == IF T = {} THEN {<<"?", "?", "?">>} ELSE {FmtStr(t.key) : t \in T}
        IN  /\ \E prefix \in prefixes :
                  issue.identifier = prefix \o <<"-">> \o IntStr(issue.number)
            /\ T # {} => ~StartsWith(issue.identifier, <<"?", "?", "?">>)

\* C11 witness: a published snapshot holds an issue of a team it has and an issue
\* whose teamId it has no team for
C11_Witness ==
    /\ cache.done = Sections
    /\ \E i, j \in 1..Len(cache.issues) :
          /\ StartsWith(cache.issues[i].identifier, <<"E", "N", "G", "-">>)
          /\ StartsWith(cache.issues[j].identifier, <<"?", "?", "?", "-">>)
          /\ cache.issues[i].teamId \in {t.id : t \in Range(cache.teams)}
          /\ cache.issues[j].teamId \notin {t.id : t \in Range(cache.teams)}

\* C12: get_my_issues reports totalIssues and countsByStateType over all the
\* issues assigned to the resolved user, whatever state_type, updated_after,
\* cursor and limit are: totalIssues is the number of issues whose assigneeId is
\* the user's id, countsByStateType their number per state type; matchingCount
\* counts those that pass the two filters.
C12_CountsBeforeFilters ==
    (tool = "get_my_issues" /\ resp # <<>> /\ resp[1].error = "") =>
        LET user == find_user(snapshot.users, request.assignee)[1]
            mine == {x \in Range(snapshot.issues) : x.assigneeId = user.id}
            TypeOf(x) == get_state_type(snapshot.states, x.stateId)
            Updated(x) == IF parse_datetime(x.updatedAt) = NoneInt THEN 0
                          ELSE parse_datetime(x.updatedAt)
            passing == {x \in mine :
                          /\ Truthy(request.state_type) => TypeOf(x) = request.state_type
                          /\ request.updated_after.given =>
                                Updated(x) >= request.updated_after.ts}
        IN  /\ resp[1].totalIssues = Cardinality(mine)
            /\ resp[1].countsByStateType =
                  [t \in {TypeOf(x) : x \in mine} |->
                      Cardinality({x \in mine : TypeOf(x) = t})]
            /\ resp[1].matchingCount = Cardinality(passing)

\* C12 witness: the second page of a user's started issues: three issues are
\* assigned to the user, two of them pass the state_type filter
C12_Witness ==
    /\ tool = "get_my_issues" /\ calls = 2 /\ resp[1].error = ""
    /\ Truthy(request.state_type)
    /\ resp[1].totalIssues = 3 /\ resp[1].matchingCount = 2
    /\ \E t \in DOMAIN resp[1].countsByStateType : resp[1].countsByStateType[t] = 2

(***************************************************************************)
(* Claims about store detection and the comment section.                   *)
(***************************************************************************)
\* the positions, in the order Issue, Team, User, WorkflowState, Comment,
\* Project, of the predicates the record satisfies
Satisfied(r) ==
    {k \in 1..6 :
        \/ k = 1 /\ is_issue_record(r)
        \/ k = 2 /\ is_team_record(r)
        \/ k = 3 /\ is_user_record(r)
        \/ k = 4 /\ is_workflow_state_record(r)
        \/ k = 5 /\ is_comment_record(r)
        \/ k = 6 /\ is_project_record(r)}

\* the positions of the roles the detection result gives the table named n
RolesOf(res, n) ==
    {k \in 1..6 :
        \/ k = 1 /\ res.issues = n
        \/ k = 2 /\ res.teams = n
        \/ k = 3 /\ n \in Range(res.users)
        \/ k = 4 /\ n \in Range(res.workflow_states)
        \/ k = 5 /\ res.comments = n
        \/ k = 6 /\ res.projects = n}

\* C13: when detect_stores has run, every table has at most one role, and no
\* role that comes later in the order than a predicate its sampled record
\* satisfies, also when the earlier role was taken by a table scanned before.
C13_FirstPredicateDecides ==
    [][\A c \in Callers :
          (pc[c] = "detect" /\ pc'[c] = "load_teams") =>
              \A i \in 1..Len(dbh[c].tables) :
                  LET t == dbh[c].tables[i]
                      roles == RolesOf(stores'[1], t.name)
                  IN  (t.recs # <<>> /\ ~SkippedName(t.name)) =>
                          /\ Cardinality(roles) <= 1
                          /\ \A k \in roles : \A j \in Satisfied(t.recs[1]) : k <= j]_vars

\* C14: in every published snapshot, every comment id listed in
\* comments_by_issue for an issue is a key of comments, after any sequence of
\* reloads and whatever the comment store holds (records without id, ids that
\* repeat).
C14_IndexedCommentsExist ==
    \A i \in 1..Len(cache.comments_by_issue) :
        \A j \in 1..Len(cache.comments_by_issue[i].ids) :
            cache.comments_by_issue[i].ids[j] \in Keys(cache.comments)

\* C14 witness: the second reload published a snapshot in which an issue lists
\* the same comment id twice, from a store that also held a record without id
C14_Witness ==
    /\ accesses = 2 /\ reloads["c1"] = 1 /\ pc["c1"] = "return"
    /\ \E i \in 1..Len(cache.comments_by_issue) :
          LET ids == cache.comments_by_issue[i].ids
          IN  /\ \E j, k \in 1..Len(ids) : j # k /\ ids[j] = ids[k]
              /\ Len(ids) > Cardinality({c \in Range(cache.comments) :
                                            c.issueId = cache.comments_by_issue[i].id})

\* C15: _extract_comment_text raises on no bodyData value (None, a str, any
\* tree of JSON objects and arrays), so no reload is ever left by an exception
\* of the comment section.
C15_ExtractorTotal ==
    \A c \in Callers : ret[c] \notin {"TypeError", "AttributeError"}

\* C18: when a reload succeeds on a store that holds a team table, the
\* snapshot it publishes contains the teams of that table, also when an
\* earlier reload ran while the store had no table that classifies as teams.
C18_TeamsFoundLater ==
    [][\A c \in Callers :
          (pc[c] = "publish" /\ pc'[c] = "return") =>
              LET t == detect_stores(dbh[c]).teams
              IN  Truthy(t) =>
                      \A r \in Range(TableRecs(dbh[c], t)) :
                          "id" \in DOMAIN r => r.id \in Keys(cache'.teams)]_vars

(***************************************************************************)
(* Claims about paging over changing data.                                 *)
(***************************************************************************)
\* the whole filtered list of the running tool on the current snapshot
FilteredNow ==
    LET whole == [request EXCEPT !.cursor = None, !.limit = 100]
    IN  CASE tool = "list_issues" -> list_issues(snapshot, whole).issues
          [] tool = "get_my_issues" -> get_my_issues(snapshot, whole).issues
          [] tool = "search_issues" -> search_issues(snapshot, whole).issues

\* the size of the filtered list as the tool's answer reports it
ReportedCount(r) ==
    CASE tool = "list_issues" -> r.totalCount
      [] tool = "get_my_issues" -> r.matchingCount
      [] tool = "search_issues" -> r.matchCount

\* C17: a call of list_issues, search_issues or get_my_issues with a non-empty
\* cursor that is the id of no issue in the current filtered list answers an
\* empty page with nextCursor null and still reports the size of the whole
\* filtered list; the client's paging ends there.
C17_StaleCursorEndsPaging ==
    [][(/\ calls' = calls + 1
        /\ Truthy(request.cursor)
        /\ request.cursor \notin Range(Ids(FilteredNow)))
       => /\ resp'[1].issues = <<>>
          /\ resp'[1].nextCursor = None
          /\ ReportedCount(resp'[1]) = Len(FilteredNow)
          /\ PagingDone']_vars

\* C17 witness: the first page ended with an issue that the next snapshot no
\* longer lists; the second call answered nothing though issues still match
C17_Witness ==
    /\ calls = 2 /\ PagingDone /\ Len(pages) = 1
    /\ pages[1].id \notin Range(Ids(FilteredNow))
    /\ resp[1].issues = <<>>
    /\ ReportedCount(resp[1]) >= 1

(***************************************************************************)
(* Claims about one tool call and the snapshots it reads.                  *)
(***************************************************************************)
\* C16: one call of a tool reads the users it resolves the filters with, the
\* issues it filters and the states it enriches them with from one and the same
\* snapshot, also when the TTL expires or the team map is empty during the call.
C16_OneSnapshotPerCall ==
    tool = "list_issues" =>
        \A i, j \in 1..Len(reads) :
            /\ reads[i].users = reads[j].users
            /\ reads[i].issues = reads[j].issues
            /\ reads[i].states = reads[j].states

====
